---------------------------- MODULE Spec2Model ----------------------------
(***************************************************************************)
(* A model of cbindgen's core: intake of parsed declarations into the      *)
(* Library tables (Library::parse_crate_mod), the dependency walk and the  *)
(* build of the ordered item list (Library::generate), the header writer   *)
(* (BuiltBindings::write) and the control flow of main.                    *)
(*                                                                         *)
(* Names are natural numbers so that the BTreeMap key order and the        *)
(* String comparison of the post-sort are the order of the integers.       *)
(* Annotations, field names and the renaming pass do not change which      *)
(* items are emitted nor their order and are left out.                     *)
(***************************************************************************)
EXTENDS Integers, Sequences, FiniteSets, TLC

\* Type names that declarations may carry: 1..MaxName.
MaxName == 2
\* Function names: 1..MaxFn.
MaxFn == 2
\* Declarations delivered by the parser in one run.
MaxDecls == 3

Names == 1..MaxName
FnNames == 1..MaxFn
\* The identifier of a generic parameter ("T"); never the name of a declaration.
TParam == MaxName + 1

\* Crate names the parser reports; "" is what load_src binds to.
CrateNames == {"", "lib", "dep"}

-----------------------------------------------------------------------------
(* The type algebra (Type of bindgen::items).  gv holds the generic values  *)
(* of a path and the pointee of a pointer.  Unsupported stands for every    *)
(* syn type that Type conversion rejects (tuples, slices, references ...).  *)

Primitive == [k |-> "Primitive", p |-> 0, gv |-> <<>>]
Unsupported == [k |-> "Unsupported", p |-> 0, gv |-> <<>>]
Path(p, gv) == [k |-> "Path", p |-> p, gv |-> gv]
Ptr(t) == [k |-> "Ptr", p |-> 0, gv |-> <<t>>]

\* Whether Type conversion of a syn type succeeds.
TypeConverts(t) == t.k # "Unsupported"

\* Plain named references, and the generic values a path may carry.
PlainPaths == {Path(n, <<>>) : n \in Names}
GenericValues == {<<>>, <<Primitive>>} \cup {<<t>> : t \in PlainPaths}
\* Types of aggregate fields and of function parameters.
ValueTypes == {Primitive} \cup PlainPaths \cup {Ptr(t) : t \in PlainPaths}
InstanceTypes == {Path(n, <<Primitive>>) : n \in Names}

-----------------------------------------------------------------------------
(* The declarations the parser delivers (syn::Item), by kind.               *)

\* Signatures: one parameter, or two named parameters in either order.
ArgLists ==
    {<<t>> : t \in ValueTypes \cup InstanceTypes \cup {Unsupported}}
        \cup {<<Path(a, <<>>), Path(b, <<>>)>> : a \in Names, b \in Names}

\* syn::ItemKind::Fn
FnItems ==
    [ident : FnNames, no_mangle : BOOLEAN, abi_c : BOOLEAN,
     args : ArgLists, ret : {Primitive}]

\* syn::ItemKind::ForeignMod with one foreign item (a function or a static).
ForeignMods ==
    [abi_c : BOOLEAN, node : {"Fn", "Static"}, ident : FnNames,
     args : ArgLists, ret : {Primitive}]

\* syn::ItemKind::Struct
StructItems ==
    [ident : Names, repr_c : BOOLEAN, generics : {<<>>},
     fields : {<<t>> : t \in ValueTypes \cup {Unsupported}}
                \cup {<<Path(a, <<>>), Path(b, <<>>)>> : a \in Names, b \in Names}]
        \cup
    [ident : Names, repr_c : BOOLEAN, generics : {<<TParam>>},
     fields : {<<Path(TParam, <<>>)>>, <<Ptr(Path(TParam, <<>>))>>}]

\* syn::ItemKind::Enum; generics: lifetimes, type parameters or where-clauses
\* are present; variants_ok: Enum::convert accepts every variant.
EnumItems == [ident : Names, generics : BOOLEAN, variants_ok : BOOLEAN]

\* syn::ItemKind::Ty
TyItems ==
    [ident : Names, generics : {<<>>},
     ty : {Primitive, Unsupported} \cup {Ptr(t) : t \in PlainPaths}
            \cup {Path(n, gv) : n \in Names, gv \in GenericValues}]
        \cup
    [ident : Names, generics : {<<TParam>>},
     ty : {Ptr(Path(TParam, <<>>))}
            \cup {Path(n, <<Path(TParam, <<>>)>>) : n \in Names}]

-----------------------------------------------------------------------------
(* The items of the model (PathValue) and the functions.                    *)

Enum(name) ==
    [tag |-> "Enum", name |-> name, generic_params |-> <<>>,
     fields |-> <<>>, aliased |-> Primitive]
Struct(name, fields, generic_params) ==
    [tag |-> "Struct", name |-> name, generic_params |-> generic_params,
     fields |-> fields, aliased |-> Primitive]
OpaqueStruct(name) ==
    [tag |-> "OpaqueStruct", name |-> name, generic_params |-> <<>>,
     fields |-> <<>>, aliased |-> Primitive]
Typedef(name, aliased) ==
    [tag |-> "Typedef", name |-> name, generic_params |-> <<>>,
     fields |-> <<>>, aliased |-> aliased]
\* aliased is the body: the path aliased and its generic values.
Specialization(name, generic_params, aliased) ==
    [tag |-> "Specialization", name |-> name, generic_params |-> generic_params,
     fields |-> <<>>, aliased |-> aliased]
Function(name, args, ret, extern_decl) ==
    [name |-> name, args |-> args, ret |-> ret, extern_decl |-> extern_decl]

\* BTreeMap::insert: the new value replaces an entry of the same key.
Insert(map, key, value) == (key :> value) @@ map
EmptyMap == <<>>

-----------------------------------------------------------------------------
VARIABLES
    pc,                   \* where the run is
    bindings_crate_name,  \* Library.bindings_crate_name
    enums, structs, opaque_structs, typedefs, specializations, functions,
    nitems,               \* declarations processed so far
    stream,               \* the declarations intake has recorded, oldest first
    deps,                 \* DependencyGraph: [order, items]
    stack,                \* the walk's pending calls, innermost first
    result,               \* BuiltBindings: [items, functions]
    config,               \* Config, as far as write reads it
    out,                  \* the blocks written to the output, in order
    matches,              \* the command line of main (clap's ArgMatches)
    exit_code,            \* the exit status of the process, once pc = "exit"
    error,                \* what main has logged with error!, "" if nothing
    run,                  \* which run of the pipeline on the stream this is
    first,                \* what the first run built and wrote
    renaming              \* an identifier, the rules applied to it, the results

tables == <<enums, structs, opaque_structs, typedefs, specializations, functions>>
walk == <<deps, stack, result>>
\* What no step of the library changes.
env == <<config, matches, exit_code, error, run, first, renaming>>
vars == <<pc, bindings_crate_name, enums, structs, opaque_structs, typedefs,
          specializations, functions, nitems, stream, deps, stack, result,
          config, out, matches, exit_code, error, run, first, renaming>>

NoItem ==
    [node |-> "None", crate_name |-> "", ident |-> 0, no_mangle |-> FALSE,
     abi_c |-> FALSE, repr_c |-> FALSE, generics |-> FALSE, log |-> "none",
     decl |-> <<>>]
\* The record of the stream once r is processed: the last rec declarations.
Seen(rec, r) ==
    IF rec = 0 THEN stream
    ELSE LET s == Append(stream, r)
         IN  SubSeq(s, (IF Len(s) > rec THEN Len(s) - rec ELSE 0) + 1, Len(s))

\* The command line: --config names a file that loads, one that does not, or
\* is absent; --lang; INPUT is a source file, a directory whose parent has a
\* name, or one whose parent has none; --crate.
Args ==
    [config : {"none", "good", "bad"}, lang : {"none", "c", "c++", "rust"},
     input : {"file", "dir", "rootdir"}, crate : {"none", "lib"}]
NoArgs == [config |-> "none", lang |-> "none", input |-> "dir", crate |-> "lib"]
\* No identifier renamed.
NoRenaming ==
    [text |-> <<>>, context |-> "EnumVariant", rule |-> "None", result |-> <<>>,
     back_rule |-> "None", back |-> <<>>]
\* Nothing built, nothing written.
NoBindings == [items |-> <<>>, functions |-> <<>>, out |-> <<>>]
\* The exit status of a process whose main returns, and of one that panics.
EXIT_SUCCESS == 0
PanicStatus == 101

\* What a run draws the stream from: the crate names and the declarations of
\* each kind, and how many of the last declarations the run records.
Catalogue ==
    [rec |-> 0, crates |-> CrateNames, fns |-> FnItems, mods |-> ForeignMods,
     structs |-> StructItems, enums |-> EnumItems, tys |-> TyItems]

-----------------------------------------------------------------------------
(* Conversions of bindgen::items, as far as intake depends on them.         *)

AllConvert(types) == \A i \in 1..Len(types) : TypeConverts(types[i])
\* Function::convert
FunctionConverts(args, ret) == AllConvert(args) /\ TypeConverts(ret)
\* Struct::convert
StructConverts(fields) == AllConvert(fields)
\* Specialization::convert: the aliased type must be a path.
SpecializationConverts(ty) == ty.k = "Path"
\* Typedef::convert
TypedefConverts(ty) == TypeConverts(ty)

-----------------------------------------------------------------------------
(* Library::blank .. Library::parse_crate_mod: one action per arm of the    *)
(* match, each the processing of one declaration of the stream.             *)

\* Library::blank and DependencyGraph::new
Blank(name) ==
    /\ bindings_crate_name = name
    /\ enums = EmptyMap /\ structs = EmptyMap /\ opaque_structs = EmptyMap
    /\ typedefs = EmptyMap /\ specializations = EmptyMap /\ functions = EmptyMap
    /\ nitems = 0
    /\ stream = <<>>
    /\ deps = [order |-> <<>>, items |-> {}]
    /\ stack = <<>>
    /\ result = [items |-> <<>>, functions |-> <<>>]
    /\ out = <<>>

Intake == pc = "intake" /\ nitems < MaxDecls
Consumed == nitems' = nitems + 1 /\ UNCHANGED <<pc, bindings_crate_name, walk, env, out>>

\* syn::ItemKind::ForeignMod
ParseForeignMod(cat) ==
    /\ Intake
    /\ \E crate_name \in cat.crates, block \in cat.mods :
         LET take == /\ block.abi_c
                     /\ block.node = "Fn"
                     /\ crate_name = bindings_crate_name
                     /\ FunctionConverts(block.args, block.ret)
         IN  /\ functions' =
                   IF take
                   THEN Insert(functions, block.ident,
                               Function(block.ident, block.args, block.ret, TRUE))
                   ELSE functions
             /\ stream' = Seen(cat.rec,
                   [node |-> "ForeignMod", crate_name |-> crate_name,
                    ident |-> block.ident, no_mangle |-> FALSE,
                    abi_c |-> block.abi_c, repr_c |-> FALSE, generics |-> FALSE,
                    log |-> IF take THEN "take" ELSE "skip", decl |-> block])
    /\ UNCHANGED <<enums, structs, opaque_structs, typedefs, specializations>>
    /\ Consumed

\* The Fn arm with `||` for the `&&` of line 184: one marker is enough.
ParseFnOneMarker(cat) ==
    /\ Intake
    /\ \E crate_name \in cat.crates, f \in cat.fns :
         LET take == /\ crate_name = bindings_crate_name
                     /\ (f.no_mangle \/ f.abi_c)
                     /\ FunctionConverts(f.args, f.ret)
         IN  /\ functions' =
                   IF take
                   THEN Insert(functions, f.ident,
                               Function(f.ident, f.args, f.ret, FALSE))
                   ELSE functions
             /\ stream' = Seen(cat.rec,
                   [node |-> "Fn", crate_name |-> crate_name, ident |-> f.ident,
                    no_mangle |-> f.no_mangle, abi_c |-> f.abi_c,
                    repr_c |-> FALSE, generics |-> FALSE,
                    log |-> IF take THEN "take" ELSE "skip", decl |-> f])
    /\ UNCHANGED <<enums, structs, opaque_structs, typedefs, specializations>>
    /\ Consumed

\* syn::ItemKind::Fn
ParseFn(cat) ==
    /\ Intake
    /\ \E crate_name \in cat.crates, f \in cat.fns :
         LET take == /\ crate_name = bindings_crate_name
                     /\ f.no_mangle /\ f.abi_c
                     /\ FunctionConverts(f.args, f.ret)
         IN  /\ functions' =
                   IF take
                   THEN Insert(functions, f.ident,
                               Function(f.ident, f.args, f.ret, FALSE))
                   ELSE functions
             /\ stream' = Seen(cat.rec,
                   [node |-> "Fn", crate_name |-> crate_name, ident |-> f.ident,
                    no_mangle |-> f.no_mangle, abi_c |-> f.abi_c,
                    repr_c |-> FALSE, generics |-> FALSE,
                    log |-> IF take THEN "take" ELSE "skip", decl |-> f])
    /\ UNCHANGED <<enums, structs, opaque_structs, typedefs, specializations>>
    /\ Consumed

\* syn::ItemKind::Struct
ParseStruct(cat) ==
    /\ Intake
    /\ \E s \in cat.structs :
         LET take == s.repr_c /\ StructConverts(s.fields)
         IN  /\ structs' =
                   IF take
                   THEN Insert(structs, s.ident, Struct(s.ident, s.fields, s.generics))
                   ELSE structs
             /\ opaque_structs' =
                   IF take
                   THEN opaque_structs
                   ELSE Insert(opaque_structs, s.ident, OpaqueStruct(s.ident))
             /\ stream' = Seen(cat.rec,
                   [node |-> "Struct", crate_name |-> "", ident |-> s.ident,
                    no_mangle |-> FALSE, abi_c |-> FALSE, repr_c |-> s.repr_c,
                    generics |-> s.generics # <<>>,
                    log |-> IF take THEN "take" ELSE "take opaque", decl |-> s])
    /\ UNCHANGED <<enums, typedefs, specializations, functions>>
    /\ Consumed

\* syn::ItemKind::Enum
ParseEnum(cat) ==
    /\ Intake
    /\ \E e \in cat.enums :
         /\ enums' =
               IF ~e.generics /\ e.variants_ok
               THEN Insert(enums, e.ident, Enum(e.ident))
               ELSE enums
         /\ opaque_structs' =
               IF ~e.generics /\ ~e.variants_ok
               THEN Insert(opaque_structs, e.ident, OpaqueStruct(e.ident))
               ELSE opaque_structs
         /\ stream' = Seen(cat.rec,
               [node |-> "Enum", crate_name |-> "", ident |-> e.ident,
                no_mangle |-> FALSE, abi_c |-> FALSE, repr_c |-> FALSE,
                generics |-> e.generics,
                log |-> IF e.generics THEN "skip"
                        ELSE IF e.variants_ok THEN "take" ELSE "take opaque",
                decl |-> e])
    /\ UNCHANGED <<structs, typedefs, specializations, functions>>
    /\ Consumed

\* syn::ItemKind::Ty
ParseTy(cat) ==
    /\ Intake
    /\ \E t \in cat.tys :
         LET spec == SpecializationConverts(t.ty)
             alias == ~spec /\ t.generics = <<>> /\ TypedefConverts(t.ty)
         IN  /\ specializations' =
                   IF spec
                   THEN Insert(specializations, t.ident,
                               Specialization(t.ident, t.generics, t.ty))
                   ELSE specializations
             /\ typedefs' =
                   IF alias
                   THEN Insert(typedefs, t.ident, Typedef(t.ident, t.ty))
                   ELSE typedefs
             /\ stream' = Seen(cat.rec,
                   [node |-> "Ty", crate_name |-> "", ident |-> t.ident,
                    no_mangle |-> FALSE, abi_c |-> FALSE, repr_c |-> FALSE,
                    generics |-> t.generics # <<>>,
                    log |-> IF spec \/ alias THEN "take" ELSE "skip", decl |-> t])
    /\ UNCHANGED <<enums, structs, opaque_structs, functions>>
    /\ Consumed

\* Every other kind of item: the `_ => {}` arm.
ParseOther(cat) ==
    /\ Intake
    /\ stream' = Seen(cat.rec, [NoItem EXCEPT !.node = "Other"])
    /\ UNCHANGED tables
    /\ Consumed

\* The keys of a BTreeMap in iteration order.
RECURSIVE SortedKeys(_)
SortedKeys(S) ==
    IF S = {} THEN <<>>
    ELSE LET m == CHOOSE x \in S : \A y \in S : x <= y
         IN  <<m>> \o SortedKeys(S \ {m})

-----------------------------------------------------------------------------
(* The dependency walk.  A task is a call still to be made or a call still  *)
(* to be returned from: "path" is add_deps_for_path(p), "path_deps" is      *)
(* add_deps_for_path_deps(p), "push" is the out.order.push(value) that ends *)
(* an add_deps_for_path, "ret" the return of an add_deps_for_path_deps.     *)

NoValue ==
    [tag |-> "None", name |-> 0, generic_params |-> <<>>,
     fields |-> <<>>, aliased |-> Primitive]
PathTask(p) == [op |-> "path", p |-> p, value |-> NoValue]
PathDepsTask(p) == [op |-> "path_deps", p |-> p, value |-> NoValue]
PushTask(value) == [op |-> "push", p |-> value.name, value |-> value]
RetTask(p) == [op |-> "ret", p |-> p, value |-> NoValue]

\* Type::add_deps: the named references of a type, head before generic values.
RECURSIVE TypeDeps(_)
RECURSIVE TypesDeps(_)
TypeDeps(t) ==
    CASE t.k = "Path" -> <<PathTask(t.p)>> \o TypesDeps(t.gv)
      [] t.k = "Ptr" -> TypeDeps(t.gv[1])
      [] OTHER -> <<>>
TypesDeps(types) ==
    IF types = <<>> THEN <<>>
    ELSE TypeDeps(Head(types)) \o TypesDeps(Tail(types))

\* The dependencies-only recursion on the generic values of a specialization.
DepsOnly(tasks) == [i \in 1..Len(tasks) |-> PathDepsTask(tasks[i].p)]

\* Function::add_deps
FunctionDeps(f) == TypesDeps(f.args) \o TypeDeps(f.ret)
\* Struct::add_deps
StructDeps(s) == TypesDeps(s.fields)
\* Typedef::add_deps
TypedefDeps(t) == TypeDeps(t.aliased)
\* Specialization::add_deps
SpecializationDeps(s) == TypeDeps(s.aliased) \o DepsOnly(TypesDeps(s.aliased.gv))

\* PathValue::add_deps
add_deps(value) ==
    CASE value.tag = "Struct" -> StructDeps(value)
      [] value.tag = "Typedef" -> TypedefDeps(value)
      [] value.tag = "Specialization" -> SpecializationDeps(value)
      [] OTHER -> <<>>

\* Library::resolve_path
resolve_path(p) ==
    IF p \in DOMAIN enums THEN enums[p]
    ELSE IF p \in DOMAIN structs THEN structs[p]
    ELSE IF p \in DOMAIN opaque_structs THEN opaque_structs[p]
    ELSE IF p \in DOMAIN typedefs THEN typedefs[p]
    ELSE IF p \in DOMAIN specializations THEN specializations[p]
    ELSE NoValue

\* The calls that have not returned: the depth of the recursion.
Depth(s) == Cardinality({i \in 1..Len(s) : s[i].op \in {"push", "ret"}})
\* The recursion the thread's stack holds.  A walk that ends never has more
\* frames than this, so running past it is a recursion that does not end.
DepthLimit == (MaxName + 1) * (MaxName + 1)

\* The calls made by the loop over self.functions of generate, lines 367-370.
RECURSIVE RootTasks(_)
RootTasks(keys) ==
    IF keys = <<>> THEN <<>>
    ELSE FunctionDeps(functions[Head(keys)]) \o RootTasks(Tail(keys))

\* rust_lib::parse_src / parse_lib return Ok: load returns the library and
\* generate starts the walk from every function in key order.
EndIntake ==
    /\ pc = "intake"
    /\ pc' = "walk"
    /\ stack' = RootTasks(SortedKeys(DOMAIN functions))
    /\ UNCHANGED <<bindings_crate_name, tables, nitems, stream, deps, result, env, out>>

\* rust_lib::parse_src / parse_lib return Err: load returns it, no library.
ParseFail ==
    /\ pc = "intake"
    /\ pc' = "load_err"
    /\ UNCHANGED <<bindings_crate_name, tables, nitems, stream, walk, env, out>>

Walking == pc = "walk" /\ stack # <<>>
Called(s) ==
    /\ stack' = s
    /\ pc' = IF Depth(s) > DepthLimit THEN "overflow" ELSE "walk"
    /\ UNCHANGED <<bindings_crate_name, tables, nitems, stream, result, env, out>>

\* add_deps_for_path without the recursion of line 345: the value is pushed,
\* the items it names are not walked.
add_deps_for_path_shallow ==
    /\ Walking
    /\ Head(stack).op = "path"
    /\ LET p == Head(stack).p
           value == resolve_path(p)
       IN  IF value.tag # "None" /\ p \notin deps.items
           THEN /\ deps' = [deps EXCEPT !.items = @ \cup {p}]
                /\ Called(<<PushTask(value)>> \o Tail(stack))
           ELSE /\ deps' = deps
                /\ Called(Tail(stack))

\* add_deps_for_path without the test of line 341: a path that resolves is
\* expanded and pushed however often it is asked for.
add_deps_for_path_unguarded ==
    /\ Walking
    /\ Head(stack).op = "path"
    /\ LET p == Head(stack).p
           value == resolve_path(p)
       IN  IF value.tag # "None"
           THEN /\ deps' = [deps EXCEPT !.items = @ \cup {p}]
                /\ Called(add_deps(value) \o <<PushTask(value)>> \o Tail(stack))
           ELSE /\ deps' = deps
                /\ Called(Tail(stack))

\* Library::add_deps_for_path
add_deps_for_path ==
    /\ Walking
    /\ Head(stack).op = "path"
    /\ LET p == Head(stack).p
           value == resolve_path(p)
       IN  IF value.tag # "None" /\ p \notin deps.items
           THEN /\ deps' = [deps EXCEPT !.items = @ \cup {p}]
                /\ Called(add_deps(value) \o <<PushTask(value)>> \o Tail(stack))
           ELSE /\ deps' = deps
                /\ Called(Tail(stack))

\* out.order.push(value), the end of add_deps_for_path
order_push ==
    /\ Walking
    /\ Head(stack).op = "push"
    /\ deps' = [deps EXCEPT !.order = Append(@, Head(stack).value)]
    /\ Called(Tail(stack))

\* Library::add_deps_for_path_deps
add_deps_for_path_deps ==
    /\ Walking
    /\ Head(stack).op = "path_deps"
    /\ LET p == Head(stack).p
           value == resolve_path(p)
       IN  IF value.tag # "None"
           THEN Called(add_deps(value) \o <<RetTask(p)>> \o Tail(stack))
           ELSE Called(Tail(stack))
    /\ deps' = deps

\* the return of add_deps_for_path_deps
path_deps_return ==
    /\ Walking
    /\ Head(stack).op = "ret"
    /\ deps' = deps
    /\ Called(Tail(stack))

-----------------------------------------------------------------------------
(* Specialization::specialize: the value to emit in place of a              *)
(* specialization (Some), nothing (None) or an error (Err).  Overflow is a  *)
(* chain of specializations that leads back to itself: the recursion does   *)
(* not end.                                                                  *)

RECURSIVE Subst(_, _, _)
RECURSIVE SubstAll(_, _, _)
\* The type with every generic parameter replaced by its value.
Subst(t, params, values) ==
    CASE t.k = "Path" ->
           IF \E i \in 1..Len(params) : params[i] = t.p
           THEN values[CHOOSE i \in 1..Len(params) : params[i] = t.p]
           ELSE Path(t.p, SubstAll(t.gv, params, values))
      [] t.k = "Ptr" -> Ptr(Subst(t.gv[1], params, values))
      [] OTHER -> t
SubstAll(types, params, values) ==
    [i \in 1..Len(types) |-> Subst(types[i], params, values)]

\* A chain through more specializations than there are names repeats one.
SpecializeFuel == MaxName + 2

RECURSIVE specialize(_, _)
specialize(s, fuel) ==
    LET target == resolve_path(s.aliased.p)
        values == s.aliased.gv
    IN  IF fuel = 0 THEN [res |-> "Overflow", value |-> NoValue]
        ELSE IF target.tag = "None" THEN [res |-> "Err", value |-> NoValue]
        ELSE IF target.tag = "Specialization" THEN
            IF Len(values) # Len(target.generic_params)
            THEN [res |-> "Err", value |-> NoValue]
            ELSE specialize(
                    Specialization(s.name, s.generic_params,
                        Path(target.aliased.p,
                             SubstAll(target.aliased.gv, target.generic_params, values))),
                    fuel - 1)
        ELSE IF target.tag = "Struct" THEN
            IF Len(values) # Len(target.generic_params)
            THEN [res |-> "Err", value |-> NoValue]
            ELSE [res |-> "Some",
                  value |-> Struct(s.name,
                                   SubstAll(target.fields, target.generic_params, values),
                                   <<>>)]
        ELSE [res |-> "None", value |-> NoValue]

-----------------------------------------------------------------------------
(* Library::generate after the walk.                                        *)

\* The loop over deps.order without its first branch: a parameterized
\* aggregate is kept.
RECURSIVE BuildItemsKeepingGenerics(_)
BuildItemsKeepingGenerics(order) ==
    IF order = <<>> THEN <<>>
    ELSE LET dep == Head(order)
             rest == BuildItemsKeepingGenerics(Tail(order))
         IN  IF dep.tag = "Specialization" THEN
                 LET r == specialize(dep, SpecializeFuel)
                 IN  IF r.res = "Some" THEN <<r.value>> \o rest ELSE rest
             ELSE <<dep>> \o rest

\* The loop over deps.order, lines 375-397.
RECURSIVE BuildItems(_)
BuildItems(order) ==
    IF order = <<>> THEN <<>>
    ELSE LET dep == Head(order)
             rest == BuildItems(Tail(order))
         IN  IF dep.tag = "Struct" /\ dep.generic_params # <<>> THEN rest
             ELSE IF dep.tag = "Specialization" THEN
                 LET r == specialize(dep, SpecializeFuel)
                 IN  IF r.res = "Some" THEN <<r.value>> \o rest ELSE rest
             ELSE <<dep>> \o rest

generate_items ==
    /\ pc = "walk" /\ stack = <<>>
    /\ IF \E i \in 1..Len(deps.order) :
            /\ deps.order[i].tag = "Specialization"
            /\ specialize(deps.order[i], SpecializeFuel).res = "Overflow"
       THEN pc' = "overflow" /\ result' = result
       ELSE pc' = "sort" /\ result' = [result EXCEPT !.items = BuildItems(deps.order)]
    /\ UNCHANGED <<bindings_crate_name, tables, nitems, stream, deps, stack, env, out>>

\* The ordering closure without its arms for opaque aggregates.
ordering_of_enums(a, b) ==
    IF a.tag = "Enum" /\ b.tag = "Enum"
    THEN (IF a.name < b.name THEN "Less" ELSE IF a.name = b.name THEN "Equal" ELSE "Greater")
    ELSE IF a.tag = "Enum" THEN "Less"
    ELSE IF b.tag = "Enum" THEN "Greater"
    ELSE "Equal"

\* The ordering closure, lines 401-413.
ordering(a, b) ==
    IF a.tag = "Enum" /\ b.tag = "Enum"
    THEN (IF a.name < b.name THEN "Less" ELSE IF a.name = b.name THEN "Equal" ELSE "Greater")
    ELSE IF a.tag = "Enum" THEN "Less"
    ELSE IF b.tag = "Enum" THEN "Greater"
    ELSE IF a.tag = "OpaqueStruct" /\ b.tag = "OpaqueStruct"
    THEN (IF a.name < b.name THEN "Less" ELSE IF a.name = b.name THEN "Equal" ELSE "Greater")
    ELSE IF a.tag = "OpaqueStruct" THEN "Less"
    ELSE IF b.tag = "OpaqueStruct" THEN "Greater"
    ELSE "Equal"

\* slice::sort_by on a short slice: from the right, each element is moved
\* right past the elements that compare Less than it.
RECURSIVE insert_head(_, _)
insert_head(x, sorted) ==
    IF sorted # <<>> /\ ordering(Head(sorted), x) = "Less"
    THEN <<Head(sorted)>> \o insert_head(x, Tail(sorted))
    ELSE <<x>> \o sorted
RECURSIVE sort_by(_)
sort_by(v) == IF v = <<>> THEN <<>> ELSE insert_head(Head(v), sort_by(Tail(v)))

\* The copy of the functions from a table whose iteration order is not that
\* of the keys and differs from one run to the next.
FunctionListOfRun ==
    [i \in 1..Cardinality(DOMAIN functions) |->
        functions[SortedKeys(DOMAIN functions)[
            IF run = 1 THEN i ELSE Cardinality(DOMAIN functions) + 1 - i]]]

\* self.functions.iter().map(..).collect(), lines 416-418.
FunctionList == [i \in 1..Cardinality(DOMAIN functions) |->
                    functions[SortedKeys(DOMAIN functions)[i]]]

\* Lines 399-428: the post-sort, the copy of the functions, Ok(result).
generate_sort ==
    /\ pc = "sort"
    /\ pc' = "built"
    /\ result' = [items |-> sort_by(result.items), functions |-> FunctionList]
    /\ UNCHANGED <<bindings_crate_name, tables, nitems, stream, deps, stack, env, out>>

-----------------------------------------------------------------------------
(* BuiltBindings::write.                                                     *)

Languages == {"C", "Cxx"}
\* The options write reads; an optional string is modelled by its presence.
Configs ==
    [language : Languages, header : BOOLEAN, include_guard : BOOLEAN,
     include_version : BOOLEAN, autogen_warning : BOOLEAN, trailer : BOOLEAN]
\* Config::default; the language defaults to C++.
DefaultConfig ==
    [language |-> "Cxx", header |-> FALSE, include_guard |-> FALSE,
     include_version |-> FALSE, autogen_warning |-> FALSE, trailer |-> FALSE]

Block(b) == <<[b |-> b, name |-> 0]>>
Opt(present, blocks) == IF present THEN blocks ELSE <<>>
ItemBlocks(items) == [i \in 1..Len(items) |-> [b |-> items[i].tag, name |-> items[i].name]]
IsPrototype(f) == ~f.extern_decl
\* The prototype loop without the extern_decl test of line 515.
PrototypesOfAll(fns) == [i \in 1..Len(fns) |-> [b |-> "Function", name |-> fns[i].name]]

Prototypes(fns) ==
    LET kept == SelectSeq(fns, IsPrototype)
    IN  [i \in 1..Len(kept) |-> [b |-> "Function", name |-> kept[i].name]]

\* Lines 457-492.
Preamble(c) ==
    Opt(c.header, Block("header"))
        \o Opt(c.include_guard, Block("#ifndef") \o Block("#define"))
        \o Opt(c.include_version, Block("version"))
        \o Opt(c.autogen_warning, Block("autogen_warning"))
        \o Block("#include <stdint.h>")
        \o Opt(c.language = "C", Block("#include <stdbool.h>"))
        \o Opt(c.language = "Cxx", Block("extern \"C\" {"))
\* Lines 508-544 with the #endif written before the extern "C" block closes.
EpilogueGuardFirst(c, fns) ==
    Opt(c.autogen_warning, Block("autogen_warning"))
        \o Prototypes(fns)
        \o Opt(c.include_guard, Block("#endif"))
        \o Opt(c.language = "Cxx", Block("} // extern \"C\""))
        \o Opt(c.autogen_warning, Block("autogen_warning"))
        \o Opt(c.trailer, Block("trailer"))

\* Lines 508-544.
Epilogue(c, fns) ==
    Opt(c.autogen_warning, Block("autogen_warning"))
        \o Prototypes(fns)
        \o Opt(c.language = "Cxx", Block("} // extern \"C\""))
        \o Opt(c.autogen_warning, Block("autogen_warning"))
        \o Opt(c.include_guard, Block("#endif"))
        \o Opt(c.trailer, Block("trailer"))

\* The items written before the panic of line 502, or all of them.
RECURSIVE BeforeSpecialization(_)
BeforeSpecialization(items) ==
    IF items = <<>> \/ Head(items).tag = "Specialization" THEN <<>>
    ELSE <<Head(items)>> \o BeforeSpecialization(Tail(items))

write ==
    /\ pc = "built"
    /\ LET written == BeforeSpecialization(result.items)
       IN  IF written # result.items
           THEN /\ out' = Preamble(config) \o ItemBlocks(written)
                /\ pc' = "panic"
           ELSE /\ out' = Preamble(config) \o ItemBlocks(result.items)
                            \o Epilogue(config, result.functions)
                /\ pc' = "written"
    /\ UNCHANGED <<bindings_crate_name, tables, nitems, stream, walk, env>>

-----------------------------------------------------------------------------
(* The library pipeline: Library::load_crate of crate "lib" under the       *)
(* default configuration, then generate and write.                          *)

Init ==
    /\ pc = "intake"
    /\ Blank("lib")
    /\ config = DefaultConfig
    /\ matches = NoArgs
    /\ exit_code = EXIT_SUCCESS
    /\ error = ""
    /\ run = 1
    /\ first = NoBindings
    /\ renaming = NoRenaming

Next ==
    \/ ParseForeignMod(Catalogue)
    \/ ParseFn(Catalogue)
    \/ ParseStruct(Catalogue)
    \/ ParseEnum(Catalogue)
    \/ ParseTy(Catalogue)
    \/ ParseOther(Catalogue)
    \/ EndIntake
    \/ ParseFail
    \/ add_deps_for_path
    \/ order_push
    \/ add_deps_for_path_deps
    \/ path_deps_return
    \/ generate_items
    \/ generate_sort
    \/ write

Spec == Init /\ [][Next]_vars

-----------------------------------------------------------------------------
(* What the statements below speak of.                                      *)

\* The names a type mentions, pointees and generic values included.
RECURSIVE NamesIn(_)
NamesIn(t) ==
    (IF t.k = "Path" THEN {t.p} ELSE {})
        \cup UNION {NamesIn(t.gv[i]) : i \in 1..Len(t.gv)}
\* The names a type holds by value: nothing behind a pointer.
RECURSIVE ValueNamesIn(_)
ValueNamesIn(t) ==
    IF t.k = "Path"
    THEN {t.p} \cup UNION {ValueNamesIn(t.gv[i]) : i \in 1..Len(t.gv)}
    ELSE {}
\* The paths (name and generic values) a type mentions.
RECURSIVE PathsIn(_)
PathsIn(t) ==
    (IF t.k = "Path" THEN {t} ELSE {})
        \cup UNION {PathsIn(t.gv[i]) : i \in 1..Len(t.gv)}

\* The types an item or a function is declared with.
TypesOf(v) ==
    IF v.tag = "Struct" THEN {v.fields[i] : i \in 1..Len(v.fields)}
    ELSE IF v.tag \in {"Typedef", "Specialization"} THEN {v.aliased}
    ELSE {}
SignatureOf(f) == {f.args[i] : i \in 1..Len(f.args)} \cup {f.ret}

ItemNames(v) == UNION {NamesIn(t) : t \in TypesOf(v)}
SignatureNames(f) == UNION {NamesIn(t) : t \in SignatureOf(f)}
Resolves(n) == resolve_path(n).tag # "None"

AllNames == 1..TParam
\* The names reached from S in at most k steps through the resolved items.
RECURSIVE ReachedFrom(_, _)
ReachedFrom(S, k) ==
    IF k = 0 THEN S
    ELSE ReachedFrom(S \cup UNION {ItemNames(resolve_path(n)) : n \in S}, k - 1)
\* Every name transitively reachable from the signatures of the functions.
Reached ==
    ReachedFrom(UNION {SignatureNames(functions[f]) : f \in DOMAIN functions},
                TParam)

\* The library is one rustc accepts: a path carries as many generic values
\* as the item it names has parameters, and nothing contains itself by value.
DeclaredTypes ==
    UNION {TypesOf(resolve_path(n)) : n \in AllNames}
        \cup UNION {SignatureOf(functions[f]) : f \in DOMAIN functions}
ArityOk ==
    \A t \in DeclaredTypes : \A q \in PathsIn(t) :
        Resolves(q.p) => Len(q.gv) = Len(resolve_path(q.p).generic_params)
RECURSIVE HeldFrom(_, _)
HeldFrom(S, k) ==
    IF k = 0 THEN S
    ELSE HeldFrom(S \cup UNION {UNION {ValueNamesIn(t) : t \in TypesOf(resolve_path(n))}
                                  : n \in S}, k - 1)
HeldBy(n) == HeldFrom(UNION {ValueNamesIn(t) : t \in TypesOf(resolve_path(n))}, TParam)
RustValid == ArityOk /\ \A n \in AllNames : n \notin HeldBy(n)

Emitted(n) == \E i \in 1..Len(result.items) : result.items[i].name = n
Position(n) == CHOOSE i \in 1..Len(result.items) : result.items[i].name = n

-----------------------------------------------------------------------------
\* C1 (walk ordering): in the item list generate returns, every aggregate
\* that has a non-pointer field whose type names an item of the library is
\* preceded by an item of that name.  Stated for the libraries rustc accepts,
\* which are among "every library": the walk started at an aggregate that
\* points to its own container emits the container first.
WalkOrdering ==
    (pc = "built" /\ RustValid) =>
        \A i \in 1..Len(result.items) :
            \A k \in 1..Len(result.items[i].fields) :
                LET t == result.items[i].fields[k]
                IN  (result.items[i].tag = "Struct" /\ t.k = "Path" /\ Resolves(t.p))
                        => \E j \in 1..(i - 1) : result.items[j].name = t.p

\* C2 (walk completeness): when generate returns, every name reachable from
\* the signature of a function that resolves in the library is in the item
\* list as the resolved item itself, or, when it is a specialization of an
\* aggregate with as many values as parameters, as the monomorphized aggregate
\* of that name; only parameterized aggregates and the other specializations
\* may be absent.
WalkCompleteness ==
    pc = "built" =>
        \A n \in Reached :
            LET v == resolve_path(n)
                target == resolve_path(v.aliased.p)
            IN  \/ v.tag = "None"
                \/ v.tag = "Struct" /\ v.generic_params # <<>>
                \/ /\ v.tag = "Specialization"
                   /\ (target.tag = "Struct"
                         /\ Len(v.aliased.gv) = Len(target.generic_params))
                        => \E i \in 1..Len(result.items) :
                              /\ result.items[i].name = n
                              /\ result.items[i].tag = "Struct"
                              /\ result.items[i].generic_params = <<>>
                \/ \E i \in 1..Len(result.items) : result.items[i] = v

\* A library in which a function reaches a monomorphized aggregate and,
\* only through that aggregate's template, a second item.
WalkCompletenessWitness ==
    /\ pc = "built"
    /\ \E n \in Reached, m \in Reached :
          /\ resolve_path(n).tag = "Specialization"
          /\ Emitted(n)
          /\ m # n /\ Emitted(m)
          /\ \A f \in DOMAIN functions : m \notin SignatureNames(functions[f])

\* C3 (no dangling named reference): when generate returns, every name
\* mentioned by a field, an aliased type, a parameter or a return type of an
\* emitted item or function is the name of an emitted item.
NoDanglingReference ==
    pc = "built" =>
        /\ \A i \in 1..Len(result.items) :
              \A n \in ItemNames(result.items[i]) : Emitted(n)
        /\ \A i \in 1..Len(result.functions) :
              \A n \in SignatureNames(result.functions[i]) : Emitted(n)

\* C4 (no specialization is emitted): the item list generate builds holds no
\* specialization and no aggregate with generic parameters, and write never
\* panics.
NoSpecializationEmitted ==
    /\ pc # "panic"
    /\ \A i \in 1..Len(result.items) :
          /\ result.items[i].tag # "Specialization"
          /\ ~(result.items[i].tag = "Struct" /\ result.items[i].generic_params # <<>>)

\* The walk placed a specialization and a parameterized aggregate into the
\* order, and the header was written.
NoSpecializationEmittedWitness ==
    /\ pc = "written"
    /\ \E i \in 1..Len(deps.order) : deps.order[i].tag = "Specialization"
    /\ \E i \in 1..Len(deps.order) :
          deps.order[i].tag = "Struct" /\ deps.order[i].generic_params # <<>>
    /\ result.items # <<>>

\* The positions of the written header that hold the prototype of f.
PrototypesOf(f) == {i \in 1..Len(out) : out[i].b = "Function" /\ out[i].name = f}
\* The written header holds n as an item.
Written(n) == \E i \in 1..Len(out) : out[i].b # "Function" /\ out[i].name = n
\* n resolves to an item that is emitted as it is.
Concrete(n) ==
    LET v == resolve_path(n)
    IN  /\ v.tag \notin {"None", "Specialization"}
        /\ ~(v.tag = "Struct" /\ v.generic_params # <<>>)

\* C8 (extern declarations): in the written header a function with
\* extern_decl = true has no prototype, and the items its signature names are
\* written all the same; a function with extern_decl = false has exactly one
\* prototype; the prototypes are in ascending order of function name.
ExternDeclNotWritten ==
    pc = "written" =>
        /\ \A f \in DOMAIN functions :
              IF functions[f].extern_decl
              THEN /\ PrototypesOf(f) = {}
                   /\ \A n \in SignatureNames(functions[f]) : Concrete(n) => Written(n)
              ELSE Cardinality(PrototypesOf(f)) = 1
        /\ \A i, j \in 1..Len(out) :
              (i < j /\ out[i].b = "Function" /\ out[j].b = "Function")
                  => out[i].name < out[j].name

\* A header written for a foreign function, whose parameter type no other
\* function names, and an exported function.
ExternDeclNotWrittenWitness ==
    /\ pc = "written"
    /\ \E f \in DOMAIN functions, n \in Names :
          /\ functions[f].extern_decl
          /\ n \in SignatureNames(functions[f])
          /\ Written(n)
          /\ \A g \in DOMAIN functions \ {f} : n \notin SignatureNames(functions[g])
    /\ Cardinality({i \in 1..Len(out) : out[i].b = "Function"}) >= 1
    /\ Cardinality(DOMAIN functions) >= 2

-----------------------------------------------------------------------------
(* Intake alone: parse_crate_mod on every stream of declarations, for a     *)
(* library bound by load_crate ("lib") or by load_src (""), with the last   *)
(* declaration recorded.                                                     *)

\* The declarations intake is run on: every combination of the attributes
\* the arms test, with few signatures, fields and aliased types.
FewArgLists == {<<Primitive>>, <<Unsupported>>, <<Path(1, <<>>)>>}
Recording ==
    [rec |-> 1, crates |-> CrateNames,
     fns |-> {f \in FnItems : f.args \in FewArgLists},
     mods |-> {m \in ForeignMods : m.args \in FewArgLists},
     structs |-> {s \in StructItems : s.fields[1].k # "Ptr" /\ Len(s.fields) = 1},
     enums |-> EnumItems,
     tys |-> {t \in TyItems : t.ty.k # "Ptr" /\ t.ty.gv \in {<<>>, <<Primitive>>}}]

InitIntake ==
    /\ pc = "intake"
    /\ \E name \in {"", "lib"} : Blank(name)
    /\ config = DefaultConfig
    /\ matches = NoArgs
    /\ exit_code = EXIT_SUCCESS
    /\ error = ""
    /\ run = 1
    /\ first = NoBindings
    /\ renaming = NoRenaming

NextIntake ==
    \/ ParseForeignMod(Recording)
    \/ ParseFn(Recording)
    \/ ParseStruct(Recording)
    \/ ParseEnum(Recording)
    \/ ParseTy(Recording)
    \/ ParseOther(Recording)

SpecIntake == InitIntake /\ [][NextIntake]_vars

\* The declaration processed last.
Last == stream[Len(stream)]
\* A function declaration that intake must not take.
Rejected(d) ==
    \/ d.node = "Fn" /\ ~(d.no_mangle /\ d.abi_c)
    \/ d.node = "ForeignMod" /\ ~d.abi_c
    \/ d.node \in {"Fn", "ForeignMod"} /\ d.crate_name # bindings_crate_name

\* C10 (function-table provenance): whenever a declaration is processed, an
\* entry of the functions table that is new or changed is the declaration
\* itself: with extern_decl = false a free function of the binding crate with
\* both the no-mangle attribute and the C ABI, with extern_decl = true a
\* foreign function in a C-ABI extern block of the binding crate; a free
\* function with one marker only, a function of a non-C extern block and a
\* function of another crate leave all six tables unchanged.
FunctionProvenance ==
    [][stream' # <<>> =>
        LET d == stream'[Len(stream')]
        IN  /\ \A f \in DOMAIN functions' :
                  (f \notin DOMAIN functions \/ functions'[f] # functions[f]) =>
                      /\ d.ident = f
                      /\ d.crate_name = bindings_crate_name
                      /\ IF functions'[f].extern_decl
                         THEN d.node = "ForeignMod" /\ d.abi_c /\ d.decl.node = "Fn"
                         ELSE d.node = "Fn" /\ d.no_mangle /\ d.abi_c
            /\ DOMAIN functions \subseteq DOMAIN functions'
            /\ Rejected(d) => UNCHANGED tables
      ]_vars

\* The table holds an exported and a foreign function, and the declaration
\* just processed is a free function of the binding crate with the
\* no-mangle attribute but not the C ABI.
FunctionProvenanceWitness ==
    /\ stream # <<>>
    /\ Last.node = "Fn" /\ Last.no_mangle /\ ~Last.abi_c
    /\ Last.crate_name = bindings_crate_name
    /\ \E f, g \in DOMAIN functions :
          functions[f].extern_decl /\ ~functions[g].extern_decl

-----------------------------------------------------------------------------
(* The post-sort alone: generate at line 399, after a walk from one         *)
(* function whose parameters name up to MaxItems items that reference       *)
(* nothing, in every order.                                                  *)

MaxItems == 4
ItemPool ==
    UNION {{Enum(n), OpaqueStruct(n), Struct(n, <<Primitive>>, <<>>),
            Typedef(n, Primitive)} : n \in 1..MaxItems}
\* The lists of at most k items of the pool, no name twice: the walk pushes
\* a name once.
RECURSIVE ListsUpTo(_)
ListsUpTo(k) ==
    IF k = 0 THEN {<<>>}
    ELSE LET shorter == ListsUpTo(k - 1)
             fresh == {y \in shorter \X ItemPool :
                          \A i \in 1..Len(y[1]) : y[1][i].name # y[2].name}
         IN  shorter \cup {Append(y[1], y[2]) : y \in fresh}
\* The table of the items of v with the given tag, by name.
TableOf(v, tag) ==
    LET S == {i \in 1..Len(v) : v[i].tag = tag}
    IN  [n \in {v[i].name : i \in S} |-> v[CHOOSE i \in S : v[i].name = n]]

\* The library and the graph after a walk from the functions fs that produced
\* the order v.
AfterWalk(v, fs) ==
    /\ bindings_crate_name = "lib"
    /\ enums = TableOf(v, "Enum")
    /\ structs = TableOf(v, "Struct")
    /\ opaque_structs = TableOf(v, "OpaqueStruct")
    /\ typedefs = TableOf(v, "Typedef")
    /\ specializations = EmptyMap
    /\ functions = fs
    /\ nitems = Len(v) + Cardinality(DOMAIN fs)
    /\ stream = <<>>
    /\ deps = [order |-> v, items |-> {v[i].name : i \in 1..Len(v)}]
    /\ stack = <<>>
    /\ out = <<>>
    /\ matches = NoArgs
    /\ exit_code = EXIT_SUCCESS
    /\ error = ""
    /\ run = 1
    /\ first = NoBindings
    /\ renaming = NoRenaming
\* A function whose parameters name the items of v in order.
Naming(v, name, extern_decl) ==
    Function(name, IF v = <<>> THEN <<Primitive>>
                   ELSE [i \in 1..Len(v) |-> Path(v[i].name, <<>>)],
             Primitive, extern_decl)

InitSort ==
    \E v \in ListsUpTo(MaxItems) \ {<<>>} :
        /\ pc = "sort"
        /\ AfterWalk(v, 1 :> Naming(v, 1, FALSE))
        /\ result = [items |-> BuildItems(v), functions |-> <<>>]
        /\ config = DefaultConfig

SpecSort == InitSort /\ [][generate_sort]_vars

\* The items of v with the given tag, in ascending order of name.
ByName(v, tag) ==
    LET t == TableOf(v, tag)
        keys == SortedKeys(DOMAIN t)
    IN  [i \in 1..Len(keys) |-> t[keys[i]]]
IsOther(x) == x.tag \notin {"Enum", "OpaqueStruct"}

\* C5 (post-sort): the item list generate returns holds the items built from
\* the walk: first the enums in ascending order of name, then the opaque
\* aggregates in ascending order of name, then every other item in the order
\* the walk produced it.
PostSort ==
    pc = "built" =>
        LET built == BuildItems(deps.order)
        IN  result.items =
                ByName(built, "Enum") \o ByName(built, "OpaqueStruct")
                    \o SelectSeq(built, IsOther)

\* A walk that produced an opaque aggregate before an enum, and two other
\* items in descending order of name.
PostSortWitness ==
    /\ pc = "built"
    /\ \E i, j \in 1..Len(deps.order) :
          i < j /\ deps.order[i].tag = "OpaqueStruct" /\ deps.order[j].tag = "Enum"
    /\ \E i, j \in 1..Len(deps.order) :
          /\ i < j /\ deps.order[i].name > deps.order[j].name
          /\ IsOther(deps.order[i]) /\ IsOther(deps.order[j])
    /\ result.items # deps.order

-----------------------------------------------------------------------------
(* write alone: every configuration, on the bindings built from a walk of   *)
(* up to MaxWritten items and one or two functions.                          *)

MaxWritten == 2
FunctionTables ==
    LET second == {Function(2, <<Primitive>>, Primitive, e) : e \in BOOLEAN}
    IN  [first : BOOLEAN, second : {<<>>} \cup {<<f>> : f \in second}]

InitWrite ==
    \E v \in ListsUpTo(MaxWritten), t \in FunctionTables, c \in Configs :
        /\ pc = "built"
        /\ AfterWalk(v, IF t.second = <<>> THEN 1 :> Naming(v, 1, t.first)
                        ELSE (1 :> Naming(v, 1, t.first)) @@ (2 :> t.second[1]))
        /\ result = [items |-> sort_by(BuildItems(v)), functions |-> FunctionList]
        /\ config = c

SpecWrite == InitWrite /\ [][write]_vars

\* The positions of the output that hold block b.
At(b) == {i \in 1..Len(out) : out[i].b = b}
\* The place of position i in the layout: the warnings are told apart by how
\* many precede them, an item is whatever is none of the fixed blocks.
Place(i) ==
    LET b == out[i].b
        warnings == Cardinality({j \in 1..(i - 1) : out[j].b = "autogen_warning"})
    IN  CASE b = "header" -> 1
          [] b = "#ifndef" -> 2
          [] b = "#define" -> 3
          [] b = "version" -> 4
          [] b = "autogen_warning" /\ warnings = 0 -> 5
          [] b = "#include <stdint.h>" -> 6
          [] b = "#include <stdbool.h>" -> 7
          [] b = "extern \"C\" {" -> 8
          [] b = "autogen_warning" /\ warnings = 1 -> 10
          [] b = "Function" -> 11
          [] b = "} // extern \"C\"" -> 12
          [] b = "autogen_warning" /\ warnings = 2 -> 13
          [] b = "#endif" -> 14
          [] b = "trailer" -> 15
          [] b = "autogen_warning" -> 16
          [] OTHER -> 9
Times(present, n) == IF present THEN n ELSE 0

\* C7 (header layout): what write emits is in the order header, #ifndef,
\* #define, version, warning, stdint include, stdbool include, extern "C"
\* open, items, warning, prototypes, extern "C" close, warning, #endif,
\* trailer; each optional block is there exactly when configured, the stdbool
\* include exactly for C, the extern "C" pair exactly for C++, the include
\* guard is opened and closed together, and the extern "C" pair encloses
\* every item and prototype.
HeaderLayout ==
    pc = "written" =>
        /\ \A i, j \in 1..Len(out) :
              i < j => \/ Place(i) < Place(j)
                       \/ Place(i) = Place(j) /\ Place(i) \in {9, 11}
        /\ Cardinality(At("header")) = Times(config.header, 1)
        /\ Cardinality(At("#ifndef")) = Times(config.include_guard, 1)
        /\ Cardinality(At("#define")) = Times(config.include_guard, 1)
        /\ Cardinality(At("#endif")) = Times(config.include_guard, 1)
        /\ Cardinality(At("version")) = Times(config.include_version, 1)
        /\ Cardinality(At("autogen_warning")) = Times(config.autogen_warning, 3)
        /\ Cardinality(At("#include <stdint.h>")) = 1
        /\ Cardinality(At("#include <stdbool.h>")) = Times(config.language = "C", 1)
        /\ Cardinality(At("extern \"C\" {")) = Times(config.language = "Cxx", 1)
        /\ Cardinality(At("} // extern \"C\"")) = Times(config.language = "Cxx", 1)
        /\ Cardinality(At("trailer")) = Times(config.trailer, 1)
        /\ Cardinality({i \in 1..Len(out) : Place(i) = 9}) = Len(result.items)
        /\ config.autogen_warning =>
              \E i \in 1..Len(out) : Place(i) = 10

\* A C++ header with every optional block, two items and a prototype.
HeaderLayoutWitness ==
    /\ pc = "written"
    /\ config.language = "Cxx" /\ config.header /\ config.include_guard
    /\ config.include_version /\ config.autogen_warning /\ config.trailer
    /\ Len(result.items) = 2
    /\ At("Function") # {}

-----------------------------------------------------------------------------
(* main: every command line, on a crate of a few declarations.              *)

\* What Config::from_file and Config::from_root_or_default may deliver.
MainConfigs ==
    {DefaultConfig,
     [language |-> "C", header |-> TRUE, include_guard |-> TRUE,
      include_version |-> TRUE, autogen_warning |-> TRUE, trailer |-> TRUE]}

MainCatalogue ==
    [rec |-> 0, crates |-> {"lib", "dep"},
     fns |-> {f \in FnItems : /\ f.ident = 1 /\ f.no_mangle /\ f.abi_c
                              /\ f.args = <<Path(2, <<>>)>>},
     mods |-> {m \in ForeignMods : /\ m.ident = 2 /\ m.abi_c /\ m.node = "Fn"
                                   /\ m.args = <<Path(1, <<>>)>>},
     structs |-> {s \in StructItems : /\ s.ident = 1 /\ s.repr_c
                                      /\ s.fields = <<Primitive>>},
     enums |-> {e \in EnumItems : e.ident = 2 /\ ~e.generics /\ e.variants_ok},
     tys |-> {t \in TyItems : /\ t.ident = 2 /\ t.generics = <<>>
                              /\ t.ty = Path(1, <<Path(1, <<>>)>>)}]

\* `return` in main, after error!(msg).
Return(msg) ==
    /\ pc' = "exit"
    /\ exit_code' = EXIT_SUCCESS
    /\ error' = msg

\* Lines 63-66: the configuration; unwrap panics when the file does not load.
main_config ==
    /\ pc = "main"
    /\ IF matches.config = "bad"
       THEN /\ pc' = "exit"
            /\ exit_code' = PanicStatus
            /\ config' = config
       ELSE /\ pc' = "lang"
            /\ exit_code' = exit_code
            /\ config' \in MainConfigs
    /\ UNCHANGED <<bindings_crate_name, tables, nitems, stream, walk, out, matches, run, first, renaming, error>>

\* Lines 68-77: --lang.
main_lang ==
    /\ pc = "lang"
    /\ CASE matches.lang = "none" ->
              pc' = "load" /\ UNCHANGED <<config, exit_code, error>>
         [] matches.lang = "c++" ->
              /\ pc' = "load" /\ config' = [config EXCEPT !.language = "Cxx"]
              /\ UNCHANGED <<exit_code, error>>
         [] matches.lang = "c" ->
              /\ pc' = "load" /\ config' = [config EXCEPT !.language = "C"]
              /\ UNCHANGED <<exit_code, error>>
         [] OTHER ->
              Return("unknown language specified") /\ config' = config
    /\ UNCHANGED <<bindings_crate_name, tables, nitems, stream, walk, out, matches, run, first, renaming>>

\* Lines 79-101: the crate to bind, and the blank library of load_crate or
\* load_src.  The parent directory of "dir" is named lib.
main_load ==
    /\ pc = "load"
    /\ IF matches.input = "file"
       THEN /\ bindings_crate_name' = ""
            /\ pc' = "intake" /\ UNCHANGED <<exit_code, error>>
       ELSE IF matches.crate # "none"
       THEN /\ bindings_crate_name' = matches.crate
            /\ pc' = "intake" /\ UNCHANGED <<exit_code, error>>
       ELSE IF matches.input = "dir"
       THEN /\ bindings_crate_name' = "lib"
            /\ pc' = "intake" /\ UNCHANGED <<exit_code, error>>
       ELSE /\ bindings_crate_name' = bindings_crate_name
            /\ Return("cannot infer the name of the bindings crate")
    /\ UNCHANGED <<tables, nitems, stream, walk, out, config, matches, run, first, renaming>>

\* Lines 103-128: the library is an Err, or the header is written and main
\* ends, or write has panicked.
main_exit ==
    /\ pc \in {"load_err", "written", "panic"}
    /\ CASE pc = "load_err" -> Return("could not generate bindings")
         [] pc = "written" -> Return(error)
         [] pc = "panic" ->
              pc' = "exit" /\ exit_code' = PanicStatus /\ error' = error
    /\ UNCHANGED <<bindings_crate_name, tables, nitems, stream, walk, out, config, matches, run, first, renaming>>

InitMain ==
    /\ pc = "main"
    /\ Blank("")
    /\ config = DefaultConfig
    /\ matches \in Args
    /\ exit_code = EXIT_SUCCESS
    /\ error = ""
    /\ run = 1
    /\ first = NoBindings
    /\ renaming = NoRenaming

NextMain ==
    \/ main_config
    \/ main_lang
    \/ main_load
    \/ ParseForeignMod(MainCatalogue)
    \/ ParseFn(MainCatalogue)
    \/ ParseStruct(MainCatalogue)
    \/ ParseEnum(MainCatalogue)
    \/ ParseTy(MainCatalogue)
    \/ ParseOther(MainCatalogue)
    \/ EndIntake
    \/ ParseFail
    \/ add_deps_for_path
    \/ order_push
    \/ add_deps_for_path_deps
    \/ path_deps_return
    \/ generate_items
    \/ generate_sort
    \/ write
    \/ main_exit

SpecMain == InitMain /\ [][NextMain]_vars

\* The run has failed: the configuration did not load, or main logged an error.
Failed == matches.config = "bad" \/ error # ""

\* C9 (exit codes): the process ends with a non-zero exit status, and with no
\* header written, whenever the configuration does not load, --lang is not
\* recognized, the crate cannot be inferred or the load returns Err; the exit
\* status is zero only on success.
ExitCodes ==
    pc = "exit" =>
        /\ Failed => (exit_code # 0 /\ out = <<>>)
        /\ exit_code = 0 => (~Failed /\ out # <<>>)

-----------------------------------------------------------------------------
(* The pipeline twice on one stream: the first run records the declarations *)
(* it is given, the second run is given the recorded ones in order.         *)

TwiceCatalogue ==
    [rec |-> MaxDecls, crates |-> {"lib"},
     fns |-> {f \in FnItems : /\ f.no_mangle /\ f.abi_c
                              /\ f.args \in {<<Path(1, <<>>), Path(2, <<>>)>>,
                                             <<Path(2, <<>>), Path(1, <<>>)>>}},
     mods |-> {m \in ForeignMods : /\ m.ident = 2 /\ m.abi_c /\ m.node = "Fn"
                                   /\ m.args = <<Path(1, <<>>)>>},
     structs |-> {s \in StructItems :
                     s.fields \in {<<Primitive>>, <<Ptr(Path(1, <<>>))>>,
                                   <<Path(1, <<>>), Path(2, <<>>)>>}},
     enums |-> {e \in EnumItems : ~e.generics /\ e.variants_ok},
     tys |-> {t \in TyItems : /\ t.ident = 2 /\ t.generics = <<>>
                              /\ t.ty = Path(1, <<Path(1, <<>>)>>)}]

\* The declaration the second run is given next.
Replayed ==
    LET more == nitems < Len(stream)
        d == stream[nitems + 1]
        Only(node) == IF more /\ d.node = node THEN {d.decl} ELSE {}
    IN  [rec |-> 0, crates |-> IF more THEN {d.crate_name} ELSE {},
         fns |-> Only("Fn"), mods |-> Only("ForeignMod"),
         structs |-> Only("Struct"), enums |-> Only("Enum"), tys |-> Only("Ty")]
Given == IF run = 1 THEN TwiceCatalogue ELSE Replayed

\* The first run is over: what it built and wrote is kept, and the second
\* starts from Library::blank with the same crate name and configuration.
again ==
    /\ pc = "written" /\ run = 1
    /\ first' = [items |-> result.items, functions |-> result.functions, out |-> out]
    /\ run' = 2
    /\ pc' = "intake"
    /\ enums' = EmptyMap /\ structs' = EmptyMap /\ opaque_structs' = EmptyMap
    /\ typedefs' = EmptyMap /\ specializations' = EmptyMap /\ functions' = EmptyMap
    /\ nitems' = 0
    /\ deps' = [order |-> <<>>, items |-> {}]
    /\ stack' = <<>>
    /\ result' = [items |-> <<>>, functions |-> <<>>]
    /\ out' = <<>>
    /\ UNCHANGED <<bindings_crate_name, stream, config, matches, exit_code, error, renaming>>

NextTwice ==
    \/ ParseForeignMod(Given)
    \/ ParseFn(Given)
    \/ ParseStruct(Given)
    \/ ParseEnum(Given)
    \/ ParseTy(Given)
    \/ (run = 2 => nitems < Len(stream) /\ stream[nitems + 1].node = "Other")
          /\ ParseOther(Given)
    \/ (run = 2 => nitems = Len(stream)) /\ EndIntake
    \/ add_deps_for_path
    \/ order_push
    \/ add_deps_for_path_deps
    \/ path_deps_return
    \/ generate_items
    \/ generate_sort
    \/ write
    \/ again

SpecTwice == Init /\ [][NextTwice]_vars

GenericEnumOpaque ==
    (stream # <<>> /\ Last.node = "Enum" /\ Last.generics)
        => Last.ident \in DOMAIN opaque_structs

\* The exception of the collision policy: an aggregate declaration that is
\* promoted to opaque while a concrete aggregate of its name is stored.
Promoted(d) ==
    d.node = "Struct" /\ d.log = "take opaque" /\ d.ident \in DOMAIN structs

\* C12 (first insertion wins): processing a declaration never replaces an
\* entry a table already holds under that name, and a name that resolved
\* before still resolves to the same entry; only an aggregate promoted to
\* opaque over a stored aggregate of its name makes the name resolve to the
\* later, opaque, entry.
FirstInsertionWins ==
    [][stream' # <<>> =>
        LET d == stream'[Len(stream')]
        IN  /\ \A f \in DOMAIN functions : functions'[f] = functions[f]
            /\ \A n \in DOMAIN structs : structs'[n] = structs[n]
            /\ \A n \in DOMAIN enums : enums'[n] = enums[n]
            /\ \A n \in DOMAIN typedefs : typedefs'[n] = typedefs[n]
            /\ \A n \in DOMAIN specializations :
                  specializations'[n] = specializations[n]
            /\ \A n \in Names :
                  Resolves(n) =>
                      IF Promoted(d) /\ d.ident = n
                      THEN resolve_path(n)'.tag = "OpaqueStruct"
                      ELSE resolve_path(n)' = resolve_path(n)
      ]_vars

\* The item tables that hold the name n.
TablesOf(n) ==
    {t \in {"enums", "structs", "opaque_structs", "typedefs", "specializations"} :
        n \in DOMAIN (CASE t = "enums" -> enums
                        [] t = "structs" -> structs
                        [] t = "opaque_structs" -> opaque_structs
                        [] t = "typedefs" -> typedefs
                        [] OTHER -> specializations)}

\* C13 (table sharing and opaque authority): a name is a key of at most two
\* item tables, and of two only when one is the opaque table; a name that is
\* in the opaque table and in another one resolves to the opaque entry.
TableSharing ==
    \A n \in Names :
        /\ Cardinality(TablesOf(n)) <= 2
        /\ Cardinality(TablesOf(n)) = 2 =>
              /\ "opaque_structs" \in TablesOf(n)
              /\ resolve_path(n).tag = "OpaqueStruct"

-----------------------------------------------------------------------------
(* bindgen::rename.  A string is the sequence of its characters; the        *)
(* alphabet has a lowercase and an uppercase ASCII letter, a digit, the     *)
(* underscore, and sz: the lowercase letter U+00DF, two bytes in UTF-8,     *)
(* whose uppercase is the two characters SS.                                *)

MaxLen == 4
Chars == {"a", "A", "1", "_", "sz"}
RECURSIVE Strings(_)
Strings(n) ==
    IF n = 0 THEN {<<>>}
    ELSE LET shorter == Strings(n - 1)
         IN  shorter \cup {Append(t, c) : t \in shorter, c \in Chars}

IdentifierTypes == {"StructMember", "EnumVariant", "FunctionArg"}
RenameRules ==
    {"None", "GeckoCase", "LowerCase", "UpperCase", "PascalCase", "CamelCase",
     "SnakeCase", "ScreamingSnakeCase"}

\* IdentifierType::to_str
to_str(context) ==
    CASE context = "StructMember" -> <<"m">>
      [] context = "EnumVariant" -> <<>>
      [] context = "FunctionArg" -> <<"a">>

\* char::is_uppercase, char::to_uppercase, char::to_lowercase, char::len_utf8
is_uppercase(c) == c \in {"A", "S", "M"}
to_uppercase(c) ==
    CASE c = "a" -> <<"A">>
      [] c = "s" -> <<"S">>
      [] c = "m" -> <<"M">>
      [] c = "sz" -> <<"S", "S">>
      [] OTHER -> <<c>>
to_lowercase(c) ==
    CASE c = "A" -> <<"a">>
      [] c = "S" -> <<"s">>
      [] c = "M" -> <<"m">>
      [] OTHER -> <<c>>
len_utf8(c) == IF c = "sz" THEN 2 ELSE 1

\* str::to_uppercase, str::to_lowercase
RECURSIVE str_to_uppercase(_)
str_to_uppercase(text) ==
    IF text = <<>> THEN <<>>
    ELSE to_uppercase(Head(text)) \o str_to_uppercase(Tail(text))
RECURSIVE str_to_lowercase(_)
str_to_lowercase(text) ==
    IF text = <<>> THEN <<>>
    ELSE to_lowercase(Head(text)) \o str_to_lowercase(Tail(text))

\* The result of a call that panics: &text[..1] when byte 1 is inside the
\* first character.
Panicked == <<"panic">>

\* The loop of the SnakeCase arm of apply_to_pascal_case, lines 58-66, with
\* the underscore pushed before a leading uppercase character too.
RECURSIVE snake_loop_leading(_, _)
snake_loop_leading(text, i) ==
    IF i > Len(text) THEN <<>>
    ELSE (IF is_uppercase(text[i]) THEN <<"_">> ELSE <<>>)
             \o to_lowercase(text[i]) \o snake_loop_leading(text, i + 1)

\* The loop of the SnakeCase arm of apply_to_pascal_case, lines 58-66, from
\* the i-th character on.
RECURSIVE snake_loop(_, _)
snake_loop(text, i) ==
    IF i > Len(text) THEN <<>>
    ELSE (IF is_uppercase(text[i]) /\ i # 1 THEN <<"_">> ELSE <<>>)
             \o to_lowercase(text[i]) \o snake_loop(text, i + 1)
\* The loop of the ScreamingSnakeCase arm, lines 71-79.
RECURSIVE screaming_loop(_, _)
screaming_loop(text, i) ==
    IF i > Len(text) THEN <<>>
    ELSE (IF is_uppercase(text[i]) /\ i # 1 THEN <<"_">> ELSE <<>>)
             \o to_uppercase(text[i]) \o screaming_loop(text, i + 1)

\* RenameRule::apply_to_pascal_case
apply_to_pascal_case(rule, text, context) ==
    IF text = <<>> THEN <<>>
    ELSE CASE rule = "None" -> text
           [] rule = "GeckoCase" -> to_str(context) \o text
           [] rule = "LowerCase" -> str_to_lowercase(text)
           [] rule = "UpperCase" -> str_to_uppercase(text)
           [] rule = "PascalCase" -> text
           [] rule = "CamelCase" ->
                IF len_utf8(text[1]) > 1 THEN Panicked
                ELSE to_lowercase(text[1]) \o Tail(text)
           [] rule = "SnakeCase" -> snake_loop(text, 1)
           [] rule = "ScreamingSnakeCase" -> screaming_loop(text, 1)

\* The loop of the PascalCase and CamelCase arms of apply_to_snake_case,
\* lines 104-121 and 125-142, entered with the given is_uppercase flag.
RECURSIVE pascal_loop(_, _)
pascal_loop(text, flag) ==
    IF text = <<>> THEN <<>>
    ELSE IF Head(text) = "_" THEN pascal_loop(Tail(text), TRUE)
    ELSE IF flag THEN to_uppercase(Head(text)) \o pascal_loop(Tail(text), FALSE)
    ELSE <<Head(text)>> \o pascal_loop(Tail(text), FALSE)

\* RenameRule::apply_to_snake_case
apply_to_snake_case(rule, text, context) ==
    IF text = <<>> THEN <<>>
    ELSE CASE rule = "None" -> text
           [] rule = "GeckoCase" ->
                IF len_utf8(text[1]) > 1 THEN Panicked
                ELSE LET rest == IF text[1] = "_" THEN Tail(text) ELSE text
                     IN  to_str(context) \o pascal_loop(rest, TRUE)
           [] rule = "LowerCase" -> str_to_lowercase(text)
           [] rule = "UpperCase" -> str_to_uppercase(text)
           [] rule = "PascalCase" -> pascal_loop(text, TRUE)
           [] rule = "CamelCase" -> pascal_loop(text, FALSE)
           [] rule = "SnakeCase" -> text
           [] rule = "ScreamingSnakeCase" -> str_to_uppercase(text)

\* A call of apply_to_snake_case on the identifier.
rename_from_snake ==
    /\ pc = "rename"
    /\ \E rule \in RenameRules :
          renaming' = [renaming EXCEPT
              !.rule = rule,
              !.result = apply_to_snake_case(rule, renaming.text, renaming.context)]
    /\ pc' = "renamed"
    /\ UNCHANGED <<bindings_crate_name, tables, nitems, stream, walk, out, config,
                   matches, exit_code, error, run, first>>

\* A call of apply_to_pascal_case on the result.
rename_from_pascal ==
    /\ pc = "renamed"
    /\ renaming.result # Panicked
    /\ \E rule \in RenameRules :
          renaming' = [renaming EXCEPT
              !.back_rule = rule,
              !.back = apply_to_pascal_case(rule, renaming.result, renaming.context)]
    /\ pc' = "renamed_back"
    /\ UNCHANGED <<bindings_crate_name, tables, nitems, stream, walk, out, config,
                   matches, exit_code, error, run, first>>

InitRename ==
    /\ pc = "rename"
    /\ Blank("lib")
    /\ config = DefaultConfig
    /\ matches = NoArgs
    /\ exit_code = EXIT_SUCCESS
    /\ error = ""
    /\ run = 1
    /\ first = NoBindings
    /\ \E text \in Strings(MaxLen), context \in IdentifierTypes :
          renaming = [NoRenaming EXCEPT !.text = text, !.context = context]

NextRename == rename_from_snake \/ rename_from_pascal

SpecRename == InitRename /\ [][NextRename]_vars

\* A snake_case identifier: lowercase letters, digits and underscores.
IsSnake(text) == \A i \in 1..Len(text) : text[i] \in {"a", "sz", "1", "_"}
\* A snake_case identifier of ASCII characters that does not start with an
\* underscore and in which a lowercase letter follows every underscore.
IsSnakeWords(text) ==
    /\ \A i \in 1..Len(text) : text[i] \in {"a", "1", "_"}
    /\ \A i \in 1..Len(text) :
          text[i] = "_" => (i # 1 /\ i < Len(text) /\ text[i + 1] = "a")
\* The identifier went through PascalCase.apply_to_snake_case and the result
\* through SnakeCase.apply_to_pascal_case.
RoundTrip ==
    /\ pc = "renamed_back"
    /\ renaming.rule = "PascalCase"
    /\ renaming.back_rule = "SnakeCase"

\* C14 as stated (rename round trip): for every snake_case identifier and
\* every role, SnakeCase.apply_to_pascal_case of
\* PascalCase.apply_to_snake_case of the identifier is the identifier.
RenameRoundTrip ==
    (RoundTrip /\ IsSnake(renaming.text)) => renaming.back = renaming.text

\* C14 as amended: the round trip yields the identifier again for every
\* identifier of ASCII lowercase letters, digits and underscores that does
\* not start with an underscore and in which every underscore is followed by
\* a lowercase letter, for every role.
RenameRoundTripOfWords ==
    (RoundTrip /\ IsSnakeWords(renaming.text)) => renaming.back = renaming.text

\* The round trip of an identifier of two words, the second with a digit.
RenameRoundTripOfWordsWitness ==
    /\ RoundTrip
    /\ IsSnakeWords(renaming.text)
    /\ Len(renaming.text) = MaxLen
    /\ \E i \in 1..Len(renaming.text) : renaming.text[i] = "_"
    /\ \E i \in 1..Len(renaming.text) : renaming.text[i] = "1"
    /\ renaming.result # renaming.text
    /\ renaming.back = renaming.text

\* A string with its first character lowercased.
LowerFirst(text) ==
    IF text = <<>> THEN <<>> ELSE to_lowercase(Head(text)) \o Tail(text)

\* C15 (CamelCase is PascalCase with the leading character lowercased): for
\* every non-empty identifier and every role, what
\* CamelCase.apply_to_snake_case returns is what
\* PascalCase.apply_to_snake_case returns with its first character
\* lowercased.  Stated for the identifiers of ASCII characters, which the
\* claim covers.
CamelIsPascalLowered ==
    (/\ pc = "renamed" /\ renaming.rule = "CamelCase" /\ renaming.text # <<>>
     /\ \A i \in 1..Len(renaming.text) : len_utf8(renaming.text[i]) = 1)
        => renaming.result =
             LowerFirst(apply_to_snake_case("PascalCase", renaming.text,
                                            renaming.context))

-----------------------------------------------------------------------------
(* The end of the walk.                                                     *)

\* C16 (walk termination): for every finite library, reference cycles
\* included, the dependency walk that generate starts from every function
\* terminates: the recursion of add_deps_for_path and add_deps_for_path_deps
\* never grows past the depth that a walk which ends can have.
WalkTerminates == ~(pc = "overflow" /\ stack # <<>>)

\* The names of the entries of the ordered list of the graph.
OrderNames == {deps.order[i].name : i \in 1..Len(deps.order)}
\* The walk of all functions has returned.
WalkFinished == (pc = "walk" /\ stack = <<>>) \/ pc \in {"sort", "built", "written"}

\* C17 (walk without duplicates): in every state of the dependency walk the
\* ordered list of the graph has no two entries of one name and every name
\* of an entry is in the visited set; when the walk of all functions has
\* finished the names of the ordered list are the visited set; the item list
\* of the BuiltBindings declares no name twice.
WalkWithoutDuplicates ==
    /\ \A i, j \in 1..Len(deps.order) :
            deps.order[i].name = deps.order[j].name => i = j
    /\ OrderNames \subseteq deps.items
    /\ WalkFinished => OrderNames = deps.items
    /\ \A i, j \in 1..Len(result.items) :
            result.items[i].name = result.items[j].name => i = j
\* A finished walk with two items in the ordered list, one of them asked for
\* a second time after it was visited, and both declared by the bindings.
WalkWithoutDuplicatesWitness ==
    /\ pc = "built"
    /\ Len(deps.order) >= 2
    /\ Len(result.items) >= 2
    /\ \E n \in deps.items :
          Cardinality({f \in DOMAIN functions : n \in SignatureNames(functions[f])})
            + Cardinality({m \in deps.items : n \in ItemNames(resolve_path(m))}) >= 2
=============================================================================
